---- MODULE Spec2Model ----
(***************************************************************************)
(* Model of src/email/linkedin-job-filter.py: one run of                   *)
(* process_linkedin_emails against a mailbox, an exclusion file and the    *)
(* job pages.                                                              *)
(*                                                                         *)
(* Text is modelled as a sequence of tokens.  A token is either one        *)
(* character that the program's regular expressions tell apart ("<", the   *)
(* double quote, a blank, a digit, "|", "#", "$"), or a run of characters  *)
(* none of them tells apart (a word such as "Google", a fixed piece of the *)
(* digest markup such as "</div>").  Words are chosen so that none is a    *)
(* substring of another except where stated; "middot" is the middle dot.   *)
(* Python's None and the empty string are both the empty sequence: the     *)
(* code only ever tests them for truth.                                    *)
(***************************************************************************)
EXTENDS Integers, Sequences, FiniteSets, TLC

None == <<>>
NotSpecified == <<"Not specified">>
UnknownTitle == <<"Unknown Title">>

Digits == {"0", "1", "2", "3", "4", "5", "6", "7", "8", "9"}
Whitespace == {" ", "\n"}
DQ == "\""

\* The digest markup written by send_summary_email, piece by piece.
JobOpen == "<div class=job>"
CompanyOpen == "<div class=company>"
TitleOpen == "<div class=title>"
InfoOpen == "<div class=info>"
LinkOpen == "<div class=link>"
TierOpen == "<div class=tier>"
TierHeaderOpen == "<div class=tier-header>"
DivClose == "</div>"
AOpen == "<a href=\""
AText == "View Job Posting</a>"
PayLabel == "Pay Range:"
LocationLabel == "Location:"
HtmlHead == "<html><head><style></style></head><body><h1></h1>"
HtmlTail == "</body></html>"

\* Tokens whose text starts with "<": what the class [^<] refuses.
LtTokens ==
    {"<", JobOpen, CompanyOpen, TitleOpen, InfoOpen, LinkOpen, TierOpen,
     TierHeaderOpen, DivClose, AOpen, HtmlHead, HtmlTail}

\* Tokens whose text holds a double quote (the class attributes of the real
\* markup are quoted): what the class [^"] refuses.
QuoteTokens ==
    {DQ, JobOpen, CompanyOpen, TitleOpen, InfoOpen, LinkOpen, TierOpen,
     TierHeaderOpen, AOpen}

\* ---------------------------------------------------------------- helpers

Range(s) == {s[i] : i \in 1..Len(s)}

Min(a, b) == IF a < b THEN a ELSE b

\* s[from..], the empty sequence when from is past the end.
Drop(s, from) == IF from > Len(s) THEN <<>> ELSE SubSeq(s, from, Len(s))

\* The least element of a non-empty set of integers.
SetMin(S) == CHOOSE x \in S : \A y \in S : x <= y

\* The least index i >= from with s[i] in S, or 0.
FirstIn(s, from, S) ==
    LET idx == {i \in from..Len(s) : s[i] \in S}
    IN  IF idx = {} THEN 0 ELSE SetMin(idx)

\* The least index i >= from with s[i] not in S, or 0.
FirstNotIn(s, from, S) ==
    LET idx == {i \in from..Len(s) : s[i] \notin S}
    IN  IF idx = {} THEN 0 ELSE SetMin(idx)

\* str.strip(): leading and trailing whitespace removed.
RECURSIVE LStrip(_)
LStrip(s) ==
    IF s # <<>> /\ Head(s) \in Whitespace THEN LStrip(Tail(s)) ELSE s

RECURSIVE RStrip(_)
RStrip(s) ==
    IF s # <<>> /\ s[Len(s)] \in Whitespace
    THEN RStrip(SubSeq(s, 1, Len(s) - 1))
    ELSE s

Strip(s) == RStrip(LStrip(s))

\* The end of the maximal run of tokens of set S that starts at from
\* (from - 1 when s[from] is not in S).
RECURSIVE RunEnd(_, _, _)
RunEnd(s, from, S) ==
    IF from <= Len(s) /\ s[from] \in S THEN RunEnd(s, from + 1, S) ELSE from - 1

\* str(n) for a natural number.
DigitChars == <<"0", "1", "2", "3", "4", "5", "6", "7", "8", "9">>

RECURSIVE NatToStr(_)
NatToStr(n) ==
    IF n < 10 THEN <<DigitChars[n + 1]>>
    ELSE NatToStr(n \div 10) \o <<DigitChars[(n % 10) + 1]>>

\* str.lower() on the words used as company names.
LowerWord(w) ==
    CASE w = "Google" -> "google"
      [] w = "Uber" -> "uber"
      [] w = "CVS" -> "cvs"
      [] w = "Acme" -> "acme"
      [] w = "Equity" -> "equity"
      [] w = "Base" -> "base"
      [] w = "Pay" -> "pay"
      [] w = "Salary" -> "salary"
      [] w = "Range" -> "range"
      [] w = "Compensation" -> "compensation"
      [] w = "GOOGLE" -> "google"
      [] w = "Metallica" -> "metallica"
      [] w = "Palo" -> "palo"
      [] w = "Alto" -> "alto"
      [] w = "LLC" -> "llc"
      [] w = "Random" -> "random"
      [] w = "Unknown" -> "unknown"
      [] w = "Startup" -> "startup"
      [] w = "Inc" -> "inc"
      [] w = "Seattle" -> "seattle"
      [] w = "Engineer" -> "engineer"
      [] w = "Senior" -> "senior"
      [] w = "Staff" -> "staff"
      [] w = "Remote" -> "remote"
      [] w = "Hybrid" -> "hybrid"
      [] OTHER -> w

Lower(s) == [i \in 1..Len(s) |-> LowerWord(s[i])]

\* The keywords a lowercase word holds: itself, and the shorter keywords
\* inside it.
WordParts(w) ==
    CASE w = "metallica" -> {"metallica", "meta"}
      [] w = "seattle" -> {"seattle", "att"}
      [] OTHER -> {w}

\* The two-word keyword that the words a and b spell with a blank between
\* them, or "".
Phrase(a, b) ==
    CASE a = "palo" /\ b = "alto" -> "palo alto"
      [] a = "blue" /\ b = "origin" -> "blue origin"
      [] a = "home" /\ b = "depot" -> "home depot"
      [] a = "best" /\ b = "buy" -> "best buy"
      [] a = "draft" /\ b = "kings" -> "draft kings"
      [] a = "publicly" /\ b = "traded" -> "publicly traded"
      [] a = "stock" /\ b = "options" -> "stock options"
      [] OTHER -> ""

\* The keywords that start at position p of a text.
KeywordsAt(text, p) ==
    WordParts(text[p])
        \cup (IF p + 2 <= Len(text) /\ text[p + 1] = " "
              THEN {Phrase(text[p], text[p + 2])} ELSE {})

\* any(keyword in text for keyword in keywords): the substring test.
ContainsAny(text, keywords) ==
    (UNION {KeywordsAt(text, p) : p \in 1..Len(text)}) \cap keywords # {}

\* ------------------------------------------------------ job identifiers

JobsView == "/jobs/view/"

\* re.search(r'/jobs/view/(\d+)', link).group(1), or None without a match:
\* the digits that follow the first "/jobs/view/" that a digit follows.
JobIdOfLink(link) ==
    LET starts == {i \in 1..(Len(link) - 1) :
                      link[i] = JobsView /\ link[i + 1] \in Digits}
    IN  IF starts = {} THEN None
        ELSE LET i == SetMin(starts)
             IN  SubSeq(link, i + 1, RunEnd(link, i + 1, Digits))

\* ------------------------------------------------------ exclusion list

\* line.split('|')[0]: the part of the line before the first "|".
BeforeBar(line) ==
    LET b == FirstIn(line, 1, {"|"})
    IN  IF b = 0 THEN line ELSE SubSeq(line, 1, b - 1)

\* The identifier one line of the exclusion file contributes, or None.
ExclusionLineId(rawLine) ==
    LET line == Strip(rawLine)
    IN  IF line = <<>> \/ line[1] = "#" THEN None
        ELSE Strip(BeforeBar(line))

\* load_exclusion_list: file.exists is FALSE for a missing file.
LoadExclusionList(file) ==
    IF ~file.exists THEN {}
    ELSE {ExclusionLineId(file.lines[i]) : i \in 1..Len(file.lines)} \ {None}

\* ------------------------------------------------------------ classifier

KnownPublic ==
    {"google", "alphabet", "meta", "facebook", "amazon", "microsoft",
     "apple", "netflix", "tesla", "nvidia", "intel", "amd", "qualcomm",
     "salesforce", "oracle", "ibm", "cisco", "adobe", "intuit", "paypal",
     "uber", "lyft", "airbnb", "doordash", "coinbase", "snowflake",
     "databricks", "stripe", "atlassian", "shopify", "square", "block",
     "mongodb", "elastic", "twilio", "okta", "zoom", "slack", "dropbox",
     "pinterest", "snap", "twitter", "reddit", "roblox", "unity",
     "servicenow", "workday", "splunk", "crowdstrike", "palo alto",
     "fortinet", "cloudflare", "datadog", "gitlab", "hashicorp",
     "affirm", "cvs", "zillow", "anthropic", "ford", "walmart",
     "target", "home depot", "lowes", "best buy", "dell", "hp",
     "booking", "expedia", "wayfair", "ebay", "etsy", "chewy",
     "draft kings", "mgm", "caesars", "disney", "comcast", "verizon",
     "att", "t-mobile", "sprint", "charter", "dish", "fox", "viacom",
     "paramount", "warner", "discovery", "spotify", "roku", "peloton",
     "figma", "mixpanel", "blue origin", "sofi"}

PublicIndicators ==
    {"nasdaq", "nyse", "publicly traded", "stock options", "equity"}

is_public_company(company_name, job_description) ==
    \/ ContainsAny(Lower(company_name), KnownPublic)
    \/ ContainsAny(Lower(job_description), PublicIndicators)

Tier1Keywords ==
    {"google", "alphabet", "meta", "facebook", "apple", "amazon", "netflix",
     "microsoft", "nvidia", "openai", "anthropic", "tesla", "spacex",
     "stripe", "databricks"}

Tier2Keywords ==
    {"salesforce", "adobe", "uber", "lyft", "airbnb", "doordash", "snowflake",
     "oracle", "ibm", "cisco", "intel", "amd", "qualcomm", "shopify",
     "atlassian", "mongodb", "elastic", "twilio", "okta", "zoom", "slack",
     "dropbox", "pinterest", "snap", "twitter", "reddit", "roblox", "unity",
     "servicenow", "workday", "splunk", "crowdstrike", "palo alto",
     "fortinet", "cloudflare", "datadog", "gitlab", "hashicorp", "figma",
     "affirm", "coinbase", "square", "block", "spotify", "roku", "peloton",
     "blue origin", "mixpanel", "sofi"}

\* The tiers tested the other way round.
TierTwoFirst(company_name) ==
    IF ContainsAny(Lower(company_name), Tier2Keywords) THEN 2
    ELSE IF ContainsAny(Lower(company_name), Tier1Keywords) THEN 1
    ELSE 3

get_company_tier(company_name) ==
    IF ContainsAny(Lower(company_name), Tier1Keywords) THEN 1
    ELSE IF ContainsAny(Lower(company_name), Tier2Keywords) THEN 2
    ELSE 3

\* -------------------------------------------------------- deduplication

\* Variants of the loop's turn, each with one of its tests or updates left
\* out; the properties of unique_jobs below tell them from DedupStep.

\* Without the test against the exclusion list.
DedupStepKeepsExcluded(acc, job, excluded) ==
    LET job_id == JobIdOfLink(job.link)
        key == IF job_id # None THEN job_id ELSE job.link
    IN  IF key \notin acc.seen
        THEN [seen |-> acc.seen \cup {key}, out |-> Append(acc.out, job)]
        ELSE acc

\* Without seen_job_ids.add(job_id).
DedupStepForgetsId(acc, job, excluded) ==
    LET job_id == JobIdOfLink(job.link)
    IN  IF job_id # None
        THEN IF job_id \in excluded THEN acc
             ELSE [seen |-> acc.seen, out |-> Append(acc.out, job)]
        ELSE IF job.link \notin acc.seen
             THEN [seen |-> acc.seen \cup {job.link},
                   out |-> Append(acc.out, job)]
             ELSE acc

\* Without seen_job_ids.add(job['link']).
DedupStepForgetsLink(acc, job, excluded) ==
    LET job_id == JobIdOfLink(job.link)
    IN  IF job_id # None
        THEN IF job_id \in excluded THEN acc
             ELSE IF job_id \notin acc.seen
                  THEN [seen |-> acc.seen \cup {job_id},
                        out |-> Append(acc.out, job)]
                  ELSE acc
        ELSE [seen |-> acc.seen, out |-> Append(acc.out, job)]

\* One turn of the deduplication loop of process_linkedin_emails over a job:
\* acc is [seen |-> seen_job_ids, out |-> unique_jobs].
DedupStep(acc, job, excluded) ==
    LET job_id == JobIdOfLink(job.link)
    IN  IF job_id # None
        THEN IF job_id \in excluded THEN acc
             ELSE IF job_id \notin acc.seen
                  THEN [seen |-> acc.seen \cup {job_id},
                        out |-> Append(acc.out, job)]
                  ELSE acc
        ELSE IF job.link \notin acc.seen
             THEN [seen |-> acc.seen \cup {job.link},
                   out |-> Append(acc.out, job)]
             ELSE acc

RECURSIVE DedupLoop(_, _, _)
DedupLoop(acc, jobs, excluded) ==
    IF jobs = <<>> THEN acc
    ELSE DedupLoop(DedupStep(acc, Head(jobs), excluded), Tail(jobs), excluded)

\* unique_jobs as the loop leaves it.
Dedup(jobs, excluded) ==
    DedupLoop([seen |-> {}, out |-> <<>>], jobs, excluded).out

\* The concatenation the other way round.
FilteredFirst(previous, filtered) == filtered \o previous

\* all_jobs = previous_jobs + filtered_jobs
MergeInput(previous, filtered) == previous \o filtered

\* ------------------------------------------------------- digest builder

\* The grouping without its tier-2 branch: those jobs fall to tier 3.
TierJobsNoSecond(jobs, k) ==
    SelectSeq(jobs, LAMBDA j :
        (IF get_company_tier(j.company) = 2 THEN 3
         ELSE get_company_tier(j.company)) = k)

TierJobs(jobs, k) == SelectSeq(jobs, LAMBDA j : get_company_tier(j.company) = k)

\* One job's block of the digest, numbered i within its tier.
JobBlock(i, job) ==
    <<"\n", JobOpen, "\n", CompanyOpen>> \o NatToStr(i) \o <<".", " ">>
        \o job.company \o <<DivClose, "\n", TitleOpen>>
        \o job.title \o <<DivClose, "\n", InfoOpen, PayLabel, " ">>
        \o job.compensation \o <<DivClose, "\n", InfoOpen, LocationLabel, " ">>
        \o job.location \o <<DivClose, "\n", LinkOpen, "\n", AOpen>>
        \o job.link \o <<DQ, ">", AText, "\n", DivClose, "\n", DivClose, "\n">>

RECURSIVE JobBlocksFrom(_, _)
JobBlocksFrom(jobs, i) ==
    IF i > Len(jobs) THEN <<>>
    ELSE JobBlock(i, jobs[i]) \o JobBlocksFrom(jobs, i + 1)

TierTitle(k) ==
    CASE k = 1 -> "Tier 1: Top Companies"
      [] k = 2 -> "Tier 2: Great Companies"
      [] OTHER -> "Tier 3: Good Companies"

\* A tier's section; nothing for a tier without jobs.
TierSection(k, tier_jobs) ==
    IF tier_jobs = <<>> THEN <<>>
    ELSE <<"\n", TierOpen, "\n", TierHeaderOpen, TierTitle(k), "(">>
            \o NatToStr(Len(tier_jobs)) \o <<" ", "jobs)", DivClose, "\n">>
            \o JobBlocksFrom(tier_jobs, 1) \o <<DivClose, "\n">>

\* email_body as send_summary_email builds it for a non-empty job list.
BuildEmailBody(jobs) ==
    <<"\n", HtmlHead>> \o NatToStr(Len(jobs)) \o <<" ", "jobs">>
        \o TierSection(1, TierJobs(jobs, 1))
        \o TierSection(2, TierJobs(jobs, 2))
        \o TierSection(3, TierJobs(jobs, 3))
        \o <<"\n", HtmlTail, "\n">>

\* ------------------------------------------------------ recovery parser

\* re.findall(r'<div class="job">(.*?)</div>\s*</div>', body, re.DOTALL)
\* from index from on: each block runs from a job opening to the first
\* closing div that only whitespace separates from another closing div.
RECURSIVE FindJobBlocks(_, _)
FindJobBlocks(body, from) ==
    LET p == FirstIn(body, from, {JobOpen})
        ends == {q \in (p + 1)..Len(body) :
                    /\ body[q] = DivClose
                    /\ LET r == FirstNotIn(body, q + 1, Whitespace)
                       IN  r # 0 /\ body[r] = DivClose}
    IN  IF p = 0 \/ ends = {} THEN <<>>
        ELSE LET q == SetMin(ends)
                 r == FirstNotIn(body, q + 1, Whitespace)
             IN  <<SubSeq(body, p + 1, q - 1)>> \o FindJobBlocks(body, r + 1)

\* The text matched by [^<]+ right after position p when "</div>" follows
\* it, or None when that does not match there.
TextToDivClose(block, p) ==
    LET e == FirstIn(block, p + 1, LtTokens)
    IN  IF e = 0 \/ e = p + 1 \/ block[e] # DivClose THEN None
        ELSE SubSeq(block, p + 1, e - 1)

\* The first opening token of set opens after which TextToDivClose
\* matches, or 0: where re.search finds the pattern.
SearchOpen(block, opens) ==
    LET hits == {p \in 1..Len(block) :
                    block[p] \in opens /\ TextToDivClose(block, p) # None}
    IN  IF hits = {} THEN 0 ELSE SetMin(hits)

\* Group 1 of (?:\d+\.\s+)?([^<]+) over the text c: the numbering is
\* skipped when digits, a dot and whitespace lead c and something is left
\* for the group (the whitespace gives its last character back if need be).
AfterNumbering(c) ==
    LET d == RunEnd(c, 1, Digits)
        w == RunEnd(c, d + 2, Whitespace)
    IN  IF d >= 1 /\ d + 2 <= Len(c) /\ c[d + 1] = "." /\ c[d + 2] \in Whitespace
        THEN IF w < Len(c) THEN SubSeq(c, w + 1, Len(c))
             ELSE IF w > d + 2 THEN <<c[w]>>
             ELSE c
        ELSE c

\* re.search(r'<a href="([^"]+)">', block).group(1), or None.
LinkMatch(block) ==
    LET hits == {p \in 1..Len(block) :
                    /\ block[p] = AOpen
                    /\ LET e == FirstIn(block, p + 1, QuoteTokens)
                       IN  /\ e > p + 1
                           /\ block[e] = DQ
                           /\ e + 1 <= Len(block)
                           /\ block[e + 1] = ">"}
    IN  IF hits = {} THEN None
        ELSE LET p == SetMin(hits)
             IN  SubSeq(block, p + 1, FirstIn(block, p + 1, QuoteTokens) - 1)

\* The job a block of a previous digest gives, as a sequence of zero or
\* one job: the block is dropped without a company or a link match.
ParseJobBlock(block) ==
    LET cp == SearchOpen(block, {CompanyOpen})
        tp == SearchOpen(block, {TitleOpen})
        pp == SearchOpen(block, {PayLabel})
        lp == SearchOpen(block, {LocationLabel})
        link == LinkMatch(block)
    IN  IF cp # 0 /\ link # None
        THEN <<[company |-> Strip(AfterNumbering(TextToDivClose(block, cp))),
                title |-> IF tp # 0 THEN Strip(TextToDivClose(block, tp))
                          ELSE UnknownTitle,
                link |-> Strip(link),
                compensation |-> IF pp # 0 THEN Strip(TextToDivClose(block, pp))
                                 ELSE NotSpecified,
                location |-> IF lp # 0 THEN Strip(TextToDivClose(block, lp))
                             ELSE NotSpecified]>>
        ELSE <<>>

RECURSIVE ParseJobBlocks(_)
ParseJobBlocks(blocks) ==
    IF blocks = <<>> THEN <<>>
    ELSE ParseJobBlock(Head(blocks)) \o ParseJobBlocks(Tail(blocks))

\* The jobs parse_previous_summary_emails recovers from one digest body.
ParseDigestBody(body_html) == ParseJobBlocks(FindJobBlocks(body_html, 1))

\* --------------------------------------------------- regular expressions

\* A pattern is a sequence of items, matched left to right as Python's re
\* does: each item takes as much as it can and gives back until the rest of
\* the pattern matches.  Cls is a character class with a repeat count
\* (max < 0: no upper limit), NotCls its complement; Alt is an ordered
\* choice between literals; Rep is (sub)* for a sub-pattern that matches in
\* one way only; End is $.
Item(k, S, lo, hi, literals, subpattern) ==
    [kind |-> k, set |-> S, min |-> lo, max |-> hi, alts |-> literals,
     sub |-> subpattern]
Cls(S, lo, hi) == Item("cls", S, lo, hi, <<>>, <<>>)
NotCls(S, lo, hi) == Item("ncls", S, lo, hi, <<>>, <<>>)
Alt(literals) == Item("alt", {}, 1, 1, literals, <<>>)
Rep(subpattern) == Item("rep", {}, 0, -1, <<>>, subpattern)
End == Item("end", {}, 0, 0, <<>>, <<>>)
One(S) == Cls(S, 1, 1)
Opt(S) == Cls(S, 0, 1)
Plus(S) == Cls(S, 1, -1)
Star(S) == Cls(S, 0, -1)
Lit(t) == Cls({t}, 1, 1)

SetMax(S) == CHOOSE x \in S : \A y \in S : x >= y

\* Whether literal lit stands in text at pos.
LitAt(text, pos, lit) ==
    /\ pos + Len(lit) - 1 <= Len(text)
    /\ \A i \in 1..Len(lit) : text[pos + i - 1] = lit[i]

\* The end of the maximal run of tokens outside S that starts at from.
RECURSIVE RunEndNot(_, _, _)
RunEndNot(s, from, S) ==
    IF from <= Len(s) /\ s[from] \notin S THEN RunEndNot(s, from + 1, S)
    ELSE from - 1

\* The position after the match of items[k..] that starts at pos, or 0
\* when they do not match there.
RECURSIVE MatchEnd(_, _, _, _)
RECURSIVE TryCount(_, _, _, _, _)
RECURSIVE TryAlt(_, _, _, _, _)
RECURSIVE TryRep(_, _, _, _, _)
RECURSIVE RepEnd(_, _, _, _)

\* A class item taking c tokens, then one fewer, down to its minimum.
TryCount(items, k, text, pos, c) ==
    IF c < items[k].min THEN 0
    ELSE LET e == MatchEnd(items, k + 1, text, pos + c)
         IN  IF e # 0 THEN e ELSE TryCount(items, k, text, pos, c - 1)

\* A choice item trying its a-th literal, then the next ones.
TryAlt(items, k, text, pos, a) ==
    IF a > Len(items[k].alts) THEN 0
    ELSE LET lit == items[k].alts[a]
             e == IF LitAt(text, pos, lit)
                  THEN MatchEnd(items, k + 1, text, pos + Len(lit)) ELSE 0
         IN  IF e # 0 THEN e ELSE TryAlt(items, k, text, pos, a + 1)

\* The position after n matches in a row of the sub-pattern, or 0.
RepEnd(subpattern, text, pos, n) ==
    IF n = 0 THEN pos
    ELSE LET e == MatchEnd(subpattern, 1, text, pos)
         IN  IF e = 0 \/ e = pos THEN 0
             ELSE RepEnd(subpattern, text, e, n - 1)

\* A repeat item taking n rounds, then one fewer, down to none.
TryRep(items, k, text, pos, n) ==
    IF n < 0 THEN 0
    ELSE LET r == RepEnd(items[k].sub, text, pos, n)
             e == IF r # 0 THEN MatchEnd(items, k + 1, text, r) ELSE 0
         IN  IF e # 0 THEN e ELSE TryRep(items, k, text, pos, n - 1)

MatchEnd(items, k, text, pos) ==
    IF k > Len(items) THEN pos
    ELSE LET it == items[k]
         IN  CASE it.kind \in {"cls", "ncls"} ->
                  LET last == IF it.kind = "cls" THEN RunEnd(text, pos, it.set)
                              ELSE RunEndNot(text, pos, it.set)
                      run == last - pos + 1
                  IN  TryCount(items, k, text, pos,
                               IF it.max < 0 THEN run ELSE Min(run, it.max))
               [] it.kind = "alt" -> TryAlt(items, k, text, pos, 1)
               [] it.kind = "rep" ->
                  TryRep(items, k, text, pos, Len(text) + 1 - pos)
               [] OTHER ->
                  IF pos = Len(text) + 1
                  THEN MatchEnd(items, k + 1, text, pos)
                  ELSE 0

\* re.match(pattern, text): whether the pattern matches at the start.
Match(items, text) == MatchEnd(items, 1, text, 1) # 0

\* re.search(pattern, text): <<start, end>> of the leftmost match (end is
\* the position after it), or <<0, 0>>.
RECURSIVE SearchFrom(_, _, _)
SearchFrom(items, text, p) ==
    IF p > Len(text) THEN <<0, 0>>
    ELSE LET e == MatchEnd(items, 1, text, p)
         IN  IF e # 0 THEN <<p, e>> ELSE SearchFrom(items, text, p + 1)

Search(items, text) == SearchFrom(items, text, 1)

\* re.IGNORECASE: letters compared without case.
FoldToken(t) ==
    CASE t = "K" -> "k"
      [] t = "USD" -> "usd"
      [] t = "Y" -> "y"
      [] t = "R" -> "r"
      [] OTHER -> LowerWord(t)

Fold(text) == [i \in 1..Len(text) |-> FoldToken(text[i])]

\* int(s.replace(',', '')) for a string of digits and commas holding at
\* least one digit.
DigitValue(d) == CHOOSE n \in 0..9 : DigitChars[n + 1] = d

RECURSIVE ParseInt(_)
ParseInt(s) ==
    IF s = <<>> THEN 0
    ELSE IF s[Len(s)] = "," THEN ParseInt(SubSeq(s, 1, Len(s) - 1))
    ELSE 10 * ParseInt(SubSeq(s, 1, Len(s) - 1)) + DigitValue(s[Len(s)])

HasDigit(s) == Range(s) \cap Digits # {}

\* f"${low//1000}K-${high//1000}K"
KRange(low, high) ==
    <<"$">> \o NatToStr(low \div 1000) \o <<"K", "-", "$">>
        \o NatToStr(high \div 1000) \o <<"K">>

\* ------------------------------------------------ compensation resolver

WS == Whitespace
DC == Digits \cup {","}
Kk == {"k"}

BaseSalaryRange == <<"base", " ", "salary", " ", "range">>
SalaryRange == <<"salary", " ", "range">>
PayRange == <<"pay", " ", "range">>
BaseSalary == <<"base", " ", "salary">>
Compensation == <<"compensation">>

\* comp_patterns of extract_compensation, in its order; the text is matched
\* folded, which is re.IGNORECASE.
CompPatterns ==
    << <<Alt(<<BaseSalaryRange, SalaryRange, PayRange>>), Plus(WS), Lit("is"),
         Plus(WS), Plus(DC), Plus(WS), Lit("usd"), Star(WS), Lit("-"),
         Star(WS), Plus(DC), Plus(WS), Lit("usd")>>,
       <<Lit("$"), Plus(DC), Opt(Kk), Star(WS), Lit("-"), Star(WS), Lit("$"),
         Plus(DC), Opt(Kk), Star(WS), Lit("/"), Star(WS), Lit("y"),
         Opt({"e"}), Opt({"a"}), Opt({"r"})>>,
       <<Lit("$"), Plus(DC), Opt(Kk), Star(WS), Lit("/"), Star(WS), Lit("y"),
         Opt({"e"}), Opt({"a"}), Opt({"r"}), Lit("+")>>,
       <<Lit("$"), Plus(DC), Opt(Kk), Star(WS), Lit("-"), Star(WS), Lit("$"),
         Plus(DC), Opt(Kk)>>,
       <<Lit("$"), Plus(DC), Opt(Kk), Lit("+")>>,
       <<Plus(DC), One(Kk), Star(WS), Lit("-"), Star(WS), Plus(DC), One(Kk)>>,
       <<Alt(<<BaseSalary, SalaryRange, Compensation, PayRange>>), Opt({":"}),
         Star(WS), Opt({"$"}), Plus(DC), Opt(Kk), Star(WS), Lit("-"),
         Star(WS), Opt({"$"}), Plus(DC), Opt(Kk)>>,
       <<Alt(<<BaseSalary, Compensation>>), Opt({":"}), Star(WS), Opt({"$"}),
         Plus(DC), Opt(Kk), Lit("+")>> >>

\* re.sub(r'\s+', ' ', comp)
RECURSIVE CollapseSpaces(_)
CollapseSpaces(s) ==
    IF s = <<>> THEN <<>>
    ELSE IF Head(s) \in Whitespace
    THEN <<" ">> \o CollapseSpaces(Drop(s, RunEnd(s, 1, Whitespace) + 1))
    ELSE <<Head(s)>> \o CollapseSpaces(Tail(s))

\* re.sub(r'yr', 'year', comp, flags=re.IGNORECASE)
RECURSIVE YrToYear(_)
YrToYear(s) ==
    IF s = <<>> THEN <<>>
    ELSE IF Len(s) >= 2 /\ FoldToken(s[1]) = "y" /\ FoldToken(s[2]) = "r"
    THEN <<"y", "e", "a", "r">> \o YrToYear(Drop(s, 3))
    ELSE <<Head(s)>> \o YrToYear(Tail(s))

\* re.findall(r'[\d,]+', s): the maximal runs of digits and commas.
RECURSIVE FindNumbers(_)
FindNumbers(s) ==
    LET p == FirstIn(s, 1, DC)
    IN  IF p = 0 THEN <<>>
        ELSE <<SubSeq(s, p, RunEnd(s, p, DC))>>
                \o FindNumbers(Drop(s, RunEnd(s, p, DC) + 1))

\* What int() raises on a string without a digit.
ValueError == <<"ValueError">>

\* The clean-up of a match of extract_compensation.
Standardize(matched) ==
    LET comp == YrToYear(CollapseSpaces(matched))
        numbers == FindNumbers(comp)
    IN  IF "USD" \in Range(comp) /\ Len(numbers) >= 2
        THEN IF HasDigit(numbers[1]) /\ HasDigit(numbers[2])
             THEN KRange(ParseInt(numbers[1]), ParseInt(numbers[2]))
             ELSE ValueError
        ELSE comp

\* The first pattern of patterns[k..] that is found in the text, or 0.
RECURSIVE FirstPatternFrom(_, _, _)
FirstPatternFrom(patterns, folded, k) ==
    IF k > Len(patterns) THEN 0
    ELSE IF Search(patterns[k], folded)[1] # 0 THEN k
    ELSE FirstPatternFrom(patterns, folded, k + 1)

FirstPattern(patterns, text) == FirstPatternFrom(patterns, Fold(text), 1)

extract_compensation(text) ==
    LET k == FirstPattern(CompPatterns, text)
        m == Search(CompPatterns[k], Fold(text))
    IN  IF k = 0 THEN NotSpecified
        ELSE Standardize(SubSeq(text, m[1], m[2] - 1))

\* salary_patterns of fetch_salary_from_job_page, in its order.
PagePatterns ==
    << <<Lit("$"), Plus(DC), Lit("."), Lit("0"), Lit("0"), Lit("/"), Lit("y"),
         Lit("r"), Lit(" "), Lit("-"), Lit(" "), Lit("$"), Plus(DC), Lit("."),
         Lit("0"), Lit("0"), Lit("/"), Lit("y"), Lit("r")>>,
       <<Alt(<<BaseSalaryRange>>), Lit(" "), Lit("is"), Lit(" "), Plus(DC),
         Lit(" "), Lit("usd"), Lit(" "), Lit("-"), Lit(" "), Plus(DC),
         Lit(" "), Lit("usd")>>,
       <<Lit("$"), Plus(DC), Lit(" "), Lit("-"), Lit(" "), Lit("$"), Plus(DC)>> >>

\* The maximal run of digits and commas that starts at from.
NumberAt(s, from) == SubSeq(s, from, RunEnd(s, from, DC))

\* The two groups of a match of PagePatterns[k] that starts at position p:
\* the numbers after the first and the second "$" (patterns 1 and 3), or
\* after "is " and "- " (pattern 2).
PageGroups(k, text, p) ==
    IF k = 2
    THEN LET n1 == FirstIn(text, p, DC)
             n2 == FirstIn(text, RunEnd(text, n1, DC) + 1, DC)
         IN  <<NumberAt(text, n1), NumberAt(text, n2)>>
    ELSE LET d2 == FirstIn(text, p + 1, {"$"})
         IN  <<NumberAt(text, p + 1), NumberAt(text, d2 + 1)>>

\* The salary scan of fetch_salary_from_job_page over the page's HTML;
\* int() raising on a number without a digit is caught and gives None.
ScanPage(html_content) ==
    LET k == FirstPattern(PagePatterns, html_content)
        m == Search(PagePatterns[k], Fold(html_content))
        groups == PageGroups(k, html_content, m[1])
    IN  IF k = 0 THEN None
        ELSE IF HasDigit(groups[1]) /\ HasDigit(groups[2])
        THEN KRange(ParseInt(groups[1]), ParseInt(groups[2]))
        ELSE None

\* fetch_salary_from_job_page: page.ok is FALSE when curl fails, times out
\* or exits non-zero; no request is made for a link without an identifier.
fetch_salary_from_job_page(job_url, page) ==
    IF JobIdOfLink(job_url) = None THEN None
    ELSE IF ~page.ok THEN None
    ELSE ScanPage(page.html)

\* --------------------------------------------------------- listing parser

Rule == "--------------------------------------------------"
MidDot == <<" ", "middot", " ">>
LinkedInComm == "https://www.linkedin.com/comm"

\* The tokens that are one character long.
SingleChars ==
    Digits \cup Whitespace \cup
    {"<", ">", DQ, "|", "#", "$", ",", "-", "/", "+", ".", ":", "?", "(", ")",
     "middot", "K", "k", "y", "e", "a", "r"}

\* The tokens that start with "http".
HttpTokens == {LinkedInComm, "https://www.linkedin.com", "http://example.com"}

\* The words that match [A-Z][a-z]+ and the ones that match [A-Z]{2}.
CapWords ==
    {"Google", "Uber", "Acme", "Equity", "Remote", "Hybrid", "Seattle",
     "Greater", "Area", "United", "States", "Engineer", "Senior", "Staff",
     "San", "Francisco", "View"}
StateCodes == {"WA", "CA", "NY"}

UnitedStates == <<"United", " ", "States">>

CityNames ==
    << <<"Seattle">>, <<"San", " ", "Francisco">>, <<"New", " ", "York">>,
       <<"Los", " ", "Angeles">>, <<"Boston">>, <<"Austin">>, <<"Denver">>,
       <<"Portland">>, <<"Chicago">>, <<"Miami">>, <<"Atlanta">>, <<"Dallas">>,
       <<"Phoenix">>, <<"San", " ", "Diego">>, <<"San", " ", "Jose">>,
       <<"Washington">> >>

MoreCapWords == Rep(<<Plus(WS), One(CapWords)>>)

\* location_patterns of parse_job_listings_from_body.
LocationPatterns ==
    << <<One(CapWords), Lit(","), Star(WS), One(StateCodes), End>>,
       <<One(CapWords), MoreCapWords, Lit(","), Star(WS), One(StateCodes), End>>,
       <<One(CapWords), MoreCapWords, Lit(","), Star(WS), Alt(<<UnitedStates>>),
         End>>,
       <<Alt(<<UnitedStates>>), End>>,
       <<Lit("Remote"), End>>,
       <<Lit("Hybrid"), End>>,
       <<Cls(Digits, 5, 5), End>>,
       <<Alt(CityNames), End>>,
       <<Lit("Greater"), Plus(WS), One(CapWords), MoreCapWords, Plus(WS),
         Lit("Area"), End>>,
       <<One(CapWords), MoreCapWords, Plus(WS), Lit("Area"), End>> >>

LooksLikeLocation(text) ==
    \E k \in 1..Len(LocationPatterns) : Match(LocationPatterns[k], text)

\* lit in text
ContainsLit(text, lit) == \E p \in 1..Len(text) : LitAt(text, p, lit)

\* text.split(lit)
RECURSIVE SplitOn(_, _)
SplitOn(text, lit) ==
    LET at == {p \in 1..Len(text) : LitAt(text, p, lit)}
    IN  IF at = {} THEN <<text>>
        ELSE <<SubSeq(text, 1, SetMin(at) - 1)>>
                \o SplitOn(Drop(text, SetMin(at) + Len(lit)), lit)

StripAll(lines) == [i \in 1..Len(lines) |-> Strip(lines[i])]

\* len(l) > 1
LongerThanOne(l) == Len(l) > 1 \/ (Len(l) = 1 /\ l[1] \notin SingleChars)

ConnectionsLine ==
    <<Plus(Digits), Plus(WS), Alt(<<<<"connections">>, <<"connection">>>>), End>>
BeFirstLine ==
    <<Alt(<<<<"Be", " ", "first", " ", "of", " ">>>>), Plus(Digits),
      Alt(<<<<" ", "to", " ", "apply">>>>), End>>

\* The lines of a segment that the parser keeps.
UsableLines(listing) ==
    LET stripped == StripAll(SplitOn(listing, <<"\n">>))
        nonblank == SelectSeq(stripped, LAMBDA l : l # <<>> /\ l # <<Rule>>)
        texts == SelectSeq(nonblank,
                     LAMBDA l : LongerThanOne(l) /\ l[1] \notin HttpTokens)
    IN  SelectSeq(texts,
            LAMBDA l : ~Match(ConnectionsLine, l) /\ ~Match(BeFirstLine, l))

\* r'(https://www\.linkedin\.com/comm/jobs/view/\d+[^\s]*)'
JobUrlPattern ==
    <<Lit(LinkedInComm), Lit(JobsView), Plus(Digits), NotCls(Whitespace, 0, -1)>>

\* url_match.group(1), or None.
JobUrlIn(text) ==
    LET m == Search(JobUrlPattern, text)
    IN  IF m[1] = 0 THEN None ELSE SubSeq(text, m[1], m[2] - 1)

\* re.sub(r'\s*-\s*\d+\s+connections?', '', company)
ConnectionsSuffix ==
    <<Star(WS), Lit("-"), Star(WS), Plus(Digits), Plus(WS),
      Alt(<<<<"connections">>, <<"connection">>>>)>>

RECURSIVE RemoveConnections(_)
RemoveConnections(company) ==
    LET m == Search(ConnectionsSuffix, company)
    IN  IF m[1] = 0 THEN company
        ELSE SubSeq(company, 1, m[1] - 1)
                \o RemoveConnections(Drop(company, m[2]))

\* The listing of a segment in the "Company (middle dot) Location" format, idx
\* being the first line that holds the separator.
CombinedListing(lines, idx, url) ==
    LET parts == SplitOn(lines[idx], MidDot)
        first_part == Strip(parts[1])
        second_part == Strip(parts[2])
        swap == LooksLikeLocation(first_part) /\ ~LooksLikeLocation(second_part)
    IN  [title |-> IF idx > 1 THEN lines[idx - 1] ELSE UnknownTitle,
         company |-> IF swap THEN second_part ELSE first_part,
         location |-> IF swap THEN first_part ELSE second_part,
         link |-> url,
         salary |-> IF idx + 1 <= Len(lines) /\ "$" \in Range(lines[idx + 1])
                    THEN lines[idx + 1] ELSE None]

\* The listing of a segment in the old format (title, company and location
\* on lines of their own), as a sequence of zero or one listing.
OldFormatListing(lines, url) ==
    LET n == Len(lines)
        company == RemoveConnections(lines[n - 1])
    IN  IF n < 2 \/ LooksLikeLocation(company) THEN <<>>
        ELSE <<[title |-> IF n >= 3 THEN lines[n - 2] ELSE UnknownTitle,
                company |-> company,
                location |-> lines[n],
                link |-> url,
                salary |-> None]>>

\* The segment's listing taken whether or not a link follows it.
ParseSegmentAnyLink(listing, following) ==
    LET url == JobUrlIn(following)
        lines == UsableLines(listing)
        dotted == {i \in 1..Len(lines) : ContainsLit(lines[i], MidDot)}
    IN  IF lines = <<>> THEN <<>>
        ELSE IF dotted # {} THEN <<CombinedListing(lines, SetMin(dotted), url)>>
        ELSE OldFormatListing(lines, url)

\* What one segment contributes, given the segment after it.
ParseSegment(listing, following) ==
    LET url == JobUrlIn(following)
        lines == UsableLines(listing)
        dotted == {i \in 1..Len(lines) : ContainsLit(lines[i], MidDot)}
    IN  IF url = None \/ lines = <<>> THEN <<>>
        ELSE IF dotted # {} THEN <<CombinedListing(lines, SetMin(dotted), url)>>
        ELSE OldFormatListing(lines, url)

RECURSIVE ParseSegments(_, _)
ParseSegments(listings, i) ==
    IF i >= Len(listings) THEN <<>>
    ELSE ParseSegment(listings[i], listings[i + 1])
            \o ParseSegments(listings, i + 1)

ViewJob == <<"View", " ", "job:">>

parse_job_listings_from_body(body) ==
    IF ContainsLit(body, ViewJob) THEN ParseSegments(SplitOn(body, ViewJob), 1)
    ELSE IF ContainsLit(body, <<"View">>)
    THEN ParseSegments(SplitOn(body, <<"View">>), 1)
    ELSE <<>>

\* ------------------------------------------------------------ the inputs

MaxEmails == 2
MaxDigests == 1

JobUrl(id, tail) == <<LinkedInComm, JobsView>> \o id \o tail

\* A job alert in the "Company (middle dot) Location" format, with an
\* inline salary and tracking parameters on the link.
BodyInline ==
    <<"Senior", " ", "Engineer", "\n",
      "Google", " ", "middot", " ", "Seattle", ",", " ", "WA", "\n",
      "$", "1", "9", "8", "K", "-", "$", "3", "4", "3", "K", " ", "/", " ",
      "y", "e", "a", "r", "\n",
      "View", " ", "job:", " ">> \o JobUrl(<<"1">>, <<"?", "trk">>)
      \o <<"\n", Rule, "\n", "Unsubscribe">>

\* Two listings, the first in the old format and of a company that is not
\* public, and no salary anywhere in the body.
BodyTwo ==
    <<"Engineer", "\n", "Acme", "\n", "Remote", "\n",
      "View", " ", "job:", " ">> \o JobUrl(<<"2">>, <<>>)
      \o <<"\n", "Staff", " ", "Engineer", "\n",
           "CVS", " ", "middot", " ", "Remote", "\n",
           "3", " ", "connections", "\n",
           "View", " ", "job:", " ">> \o JobUrl(<<"1", "2">>, <<>>)
      \o <<"\n", "Unsubscribe">>

\* A message that is no job alert.
BodyNoListing == <<"Hello", " ", "from", " ", "LinkedIn">>

\* An HTML-flavoured alert: markup left in the company line, an indicator
\* phrase and a USD salary range in the text.
BodyHtml ==
    <<"Engineer", "\n", "Acme", " ", "<", " ", "middot", " ", "Hybrid", "\n",
      "View", " ", "job:", " ">> \o JobUrl(<<"2">>, <<>>)
      \o <<"\n", "Equity", " ", "and", " ", "pay", " ", "range", " ", "is", " ",
           "1", "5", "0", ",", "0", "0", "0", " ", "USD", " ", "-", " ",
           "2", "0", "0", ",", "0", "0", "0", " ", "USD">>

EmailBodies == {BodyInline, BodyTwo, BodyNoListing, BodyHtml}

\* What a search for source emails can return: threads with an id, and one
\* without (id None).
EmailChoices ==
    [id : {<<"m">>}, body : EmailBodies] \cup {[id |-> None, body |-> BodyInline]}

\* The n-th element of a sequence of emails gets the id "m<n>".
NumberEmails(es) ==
    [i \in 1..Len(es) |->
        [id |-> IF es[i].id = None THEN None ELSE es[i].id \o NatToStr(i),
         body |-> es[i].body]]

SeqsUpTo(S, n) == UNION {[1..k -> S] : k \in 0..n}

Inboxes == {NumberEmails(es) : es \in SeqsUpTo(EmailChoices, MaxEmails)}

Job(c, t, l, p, loc) ==
    [company |-> c, title |-> t, link |-> l, compensation |-> p, location |-> loc]

\* The job lists of earlier digests: what an earlier run sent, and a mail of
\* the same subject whose link holds no job identifier.
EarlierJobLists ==
    { <<Job(<<"Uber">>, <<"Engineer">>, JobUrl(<<"1">>, <<>>),
            <<"$", "1", "K", "-", "$", "2", "K">>, <<"Remote">>),
        Job(<<"CVS">>, <<"Staff", " ", "Engineer">>,
            <<"https://www.linkedin.com", "/jobs/search">>,
            NotSpecified, <<"Hybrid">>)>>,
      <<Job(<<"CVS">>, <<"Engineer">>, JobUrl(<<"2">>, <<>>),
            NotSpecified, <<"Seattle", ",", " ", "WA">>),
        Job(<<"Google">>, <<"Senior", " ", "Engineer">>,
            JobUrl(<<"1">>, <<"?", "trk">>),
            <<"$", "1", "9", "8", "K">>, <<"Remote">>)>>,
      <<Job(<<"Google">>, <<"Engineer">>, JobUrl(<<"1", "2">>, <<>>),
            NotSpecified, NotSpecified)>> }

DigestChoices == {BuildEmailBody(jobs) : jobs \in EarlierJobLists}

NumberDigests(bodies) ==
    [i \in 1..Len(bodies) |-> [id |-> <<"d">> \o NatToStr(i), body |-> bodies[i], recent |-> TRUE]]

DigestBoxes == {NumberDigests(ds) : ds \in SeqsUpTo(DigestChoices, MaxDigests)}

\* ~/bin/linkedin-jobs-exclusions.txt: missing, or with these lines.
ExclusionFiles ==
    { [exists |-> FALSE, lines |-> <<>>],
      [exists |-> TRUE,
       lines |-> << <<"#", " ", "seen">>, <<>>,
                    <<"1", " ", "|", " ", "Google", "|", "2">>, <<"|", "2">> >>],
      [exists |-> TRUE, lines |-> << <<" ", "1", "2">>, <<"2", "|">> >>] }

\* What curl can bring back from a job page.
PageChoices ==
    { [ok |-> FALSE, html |-> <<>>],
      [ok |-> TRUE, html |-> <<"No", " ", "salary", " ", "here">>],
      [ok |-> TRUE,
       html |-> <<"$", "2", "7", "2", ",", "0", "0", "0", ".", "0", "0", "/",
                  "y", "r", " ", "-", " ", "$", "4", "3", "1", ",", "2", "5",
                  "0", ".", "0", "0", "/", "y", "r">>] }

\* ------------------------------------------------- process_linkedin_emails

\* The result caps of the three gmail searches.
MaxPreviousThreads == 10
MaxDeleteThreads == 20
MaxEmailThreads == 50

Take(s, n) == SubSeq(s, 1, Min(Len(s), n))

VARIABLES
    dry_run,                \* the --dry-run flag
    exclusion_file,         \* the exclusion file on disk
    digests,                \* mailbox: the digest threads not in the trash
    inbox,                  \* mailbox: the LinkedIn threads of the last day
    pc,                     \* where the run stands
    excluded_job_ids,
    previous_jobs,
    emails,
    i,                      \* index of the email the outer loop is at
    body,                   \* body of that email
    job_listings,           \* its parsed listings
    j,                      \* index of the listing the inner loop is at
    filtered_jobs,
    processed_message_ids,
    unique_jobs,
    got_details,            \* the ids of the emails whose details arrived
    fetches,                \* the calls of fetch_salary_from_job_page so far
    trace                   \* the mutating mail-tool steps so far, in order

vars ==
    <<dry_run, exclusion_file, digests, inbox, pc, excluded_job_ids,
      previous_jobs, emails, i, body, job_listings, j, filtered_jobs,
      processed_message_ids, unique_jobs, got_details, fetches, trace>>

inputs == <<dry_run, exclusion_file, inbox>>

Step(op, arg) == [op |-> op, arg |-> arg]

Init ==
    /\ dry_run \in BOOLEAN
    /\ exclusion_file \in ExclusionFiles
    /\ digests \in DigestBoxes
    /\ inbox \in Inboxes
    /\ pc = "load"
    /\ excluded_job_ids = {}
    /\ previous_jobs = <<>>
    /\ emails = <<>>
    /\ i = 1
    /\ body = <<>>
    /\ job_listings = <<>>
    /\ j = 1
    /\ filtered_jobs = <<>>
    /\ processed_message_ids = <<>>
    /\ unique_jobs = <<>>
    /\ got_details = {}
    /\ fetches = <<>>
    /\ trace = <<>>

\* excluded_job_ids = load_exclusion_list(): reading the file can fail after
\* any number n of its lines, and the ids read until then are kept.
LoadExclusions ==
    /\ pc = "load"
    /\ \E n \in 0..Len(exclusion_file.lines) :
           excluded_job_ids' =
               LoadExclusionList([exists |-> exclusion_file.exists,
                                  lines |-> Take(exclusion_file.lines, n)])
    /\ pc' = "previous"
    /\ UNCHANGED <<got_details, inputs, digests, previous_jobs, emails, i, body,
                   job_listings, j, filtered_jobs, processed_message_ids,
                   unique_jobs, fetches, trace>>

\* The jobs of the threads whose details arrived (got[k]); a thread without
\* an id or a body gives none.
RECURSIVE PreviousJobsOf(_, _, _)
PreviousJobsOf(threads, got, k) ==
    IF k > Len(threads) THEN <<>>
    ELSE (IF threads[k].id # None /\ got[k]
          THEN ParseDigestBody(threads[k].body) ELSE <<>>)
            \o PreviousJobsOf(threads, got, k + 1)

\* The threads the search 'subject:"LinkedIn Job Opportunities"
\* newer_than:1d' --max 10 returns: the digests of the last day.
RecentThreads(box) ==
    Take(SelectSeq(box, LAMBDA d : d.recent), MaxPreviousThreads)

\* previous_jobs = parse_previous_summary_emails(); the search and each get
\* can fail, and a failed call gives an empty result.
ParsePrevious ==
    /\ pc = "previous"
    /\ \E ok \in BOOLEAN :
         LET threads == IF ok THEN RecentThreads(digests) ELSE <<>>
         IN  \E got \in [1..Len(threads) -> BOOLEAN] :
                 previous_jobs' = PreviousJobsOf(threads, got, 1)
    /\ pc' = "search"
    /\ UNCHANGED <<got_details, inputs, digests, excluded_job_ids, emails, i, body,
                   job_listings, j, filtered_jobs, processed_message_ids,
                   unique_jobs, fetches, trace>>

\* emails = get_unread_linkedin_emails(), and the early return when there
\* is nothing to do.
GetUnread ==
    /\ pc = "search"
    /\ \E ok \in BOOLEAN :
         /\ emails' = IF ok THEN Take(inbox, MaxEmailThreads) ELSE <<>>
         /\ pc' = IF emails' = <<>> /\ previous_jobs = <<>> THEN "done"
                  ELSE "email"
    /\ UNCHANGED <<got_details, inputs, digests, excluded_job_ids, previous_jobs, i, body,
                   job_listings, j, filtered_jobs, processed_message_ids,
                   unique_jobs, fetches, trace>>

\* The head of the loop over emails, up to the loop over the listings of
\* one email: an email without an id, or without a listing, is passed over.
NextEmail ==
    /\ pc = "email"
    /\ IF i > Len(emails)
       THEN /\ pc' = "merge"
            /\ UNCHANGED <<i, body, job_listings, j, got_details>>
       ELSE IF emails[i].id = None
       THEN /\ i' = i + 1
            /\ UNCHANGED <<pc, body, job_listings, j, got_details>>
       ELSE \E ok \in BOOLEAN :
               /\ body' = IF ok THEN emails[i].body ELSE <<>>
               /\ got_details' = IF ok THEN got_details \cup {emails[i].id}
                                 ELSE got_details
               /\ job_listings' = parse_job_listings_from_body(body')
               /\ j' = 1
               /\ IF job_listings' = <<>>
                  THEN i' = i + 1 /\ pc' = pc
                  ELSE i' = i /\ pc' = "listing"
    /\ UNCHANGED <<inputs, digests, excluded_job_ids, previous_jobs, emails,
                   filtered_jobs, processed_message_ids, unique_jobs, fetches,
                   trace>>

\* The tests of the loop without the classifier.
DroppedOnlyExcluded(job, email_body, excluded) ==
    JobIdOfLink(job.link) # None /\ JobIdOfLink(job.link) \in excluded

\* Whether the loop passes over a listing: not a public company, or on the
\* exclusion list.
Dropped(job, email_body, excluded) ==
    \/ ~is_public_company(job.company, email_body)
    \/ JobIdOfLink(job.link) # None /\ JobIdOfLink(job.link) \in excluded

\* Steps 1 and 2 of the resolution: the inline salary, or else the search of
\* the email body.
FirstCompensation(job, email_body) ==
    IF job.salary # None THEN job.salary ELSE extract_compensation(email_body)

\* The test without its first half.
NeedsFetchOnlyEmpty(compensation) == compensation = None

\* compensation == "Not specified" or not compensation
NeedsFetch(compensation) == compensation = NotSpecified \/ compensation = None

\* The outcome of the resolution from what steps 1 and 2 gave (first) and
\* what the fetch gave (page_salary, None when it was not made).
ResolveWith(first, page_salary) ==
    [raised |-> first = ValueError,
     fetched |-> NeedsFetch(first),
     page_salary |-> page_salary,
     compensation |-> IF page_salary # None THEN page_salary
                      ELSE IF first # None THEN first
                      ELSE NotSpecified]

ResolveFrom(first, link, page) ==
    ResolveWith(first, IF NeedsFetch(first)
                       THEN fetch_salary_from_job_page(link, page) ELSE None)

\* The compensation of a listing, page being what the job page would
\* answer: whether the page was fetched (fetched), what the fetch gave
\* (page_salary) and the value recorded (compensation).
ResolveCompensation(job, email_body, page) ==
    ResolveFrom(FirstCompensation(job, email_body), job.link, page)

\* The end of the loop body for a listing that is kept, r being its
\* resolved compensation: filtered_jobs.append(...), unless int() raised.
Accumulate(job, r) ==
    IF r.raised
    THEN /\ pc' = "raised"
         /\ UNCHANGED <<i, j, filtered_jobs, processed_message_ids, fetches>>
    ELSE /\ filtered_jobs' =
                Append(filtered_jobs,
                       Job(job.company, job.title, job.link, r.compensation,
                           job.location))
         /\ fetches' = IF r.fetched
                       THEN Append(fetches, [url |-> job.link,
                                             salary |-> r.page_salary])
                       ELSE fetches
         /\ j' = j + 1
         /\ UNCHANGED <<pc, i, processed_message_ids>>

\* One turn of the loop over the listings of an email.
HandleListing(job) ==
    IF Dropped(job, body, excluded_job_ids)
    THEN /\ j' = j + 1
         /\ UNCHANGED <<pc, i, filtered_jobs, processed_message_ids, fetches>>
    ELSE \E page \in PageChoices :
            Accumulate(job, ResolveCompensation(job, body, page))

\* The loop over the listings of an email, and after the last one
\* processed_message_ids.append(message_id).
ProcessListing ==
    /\ pc = "listing"
    /\ IF j > Len(job_listings)
       THEN /\ processed_message_ids' =
                   Append(processed_message_ids, emails[i].id)
            /\ i' = i + 1
            /\ pc' = "email"
            /\ UNCHANGED <<j, filtered_jobs, fetches>>
       ELSE HandleListing(job_listings[j])
    /\ UNCHANGED <<got_details, inputs, digests, excluded_job_ids, previous_jobs, emails,
                   body, job_listings, unique_jobs, trace>>

\* The merge with the previous jobs and the deduplication, and the tests
\* that choose what follows it: after_empty for an empty unique_jobs, and
\* for the others after_preview under --dry-run, after_mutating without.
MergeStep(after_empty, after_preview, after_mutating) ==
    /\ pc = "merge"
    /\ unique_jobs' =
           Dedup(MergeInput(previous_jobs, filtered_jobs), excluded_job_ids)
    /\ pc' = IF unique_jobs' = <<>> THEN after_empty
             ELSE IF dry_run THEN after_preview ELSE after_mutating
    /\ UNCHANGED <<got_details, inputs, digests, excluded_job_ids,
                   previous_jobs, emails, i, body, job_listings, j,
                   filtered_jobs, processed_message_ids, fetches, trace>>

\* Variants of the tests after the merge: the delete pass made under
\* --dry-run too, the delete pass never made, and the test for an empty
\* unique_jobs left out.
MergeDeletesInPreview == MergeStep("mark", "delete", "delete")
MergeNeverDeletes == MergeStep("mark", "send", "send")
MergeWithoutEmptyTest ==
    MergeStep(IF dry_run THEN "send" ELSE "delete", "send", "delete")

\* if unique_jobs: [if not dry_run: delete_old_summary_emails()]
\* send_summary_email(...)
Merge == MergeStep("mark", "send", "delete")

\* The trash requests of delete_old_summary_emails for the threads found.
TrashSteps(threads) == [k \in 1..Len(threads) |-> Step("trash", threads[k].id)]

\* The threads the pass leaves in the mailbox: the ones not found and the
\* ones whose request failed (done[k] FALSE).
RECURSIVE Untrashed(_, _, _, _)
Untrashed(box, found, done, k) ==
    IF k > Len(box) THEN <<>>
    ELSE (IF k <= found /\ done[k] THEN <<>> ELSE <<box[k]>>)
            \o Untrashed(box, found, done, k + 1)

\* delete_old_summary_emails(): the search and each request can fail.
DeleteOldSummaries ==
    /\ pc = "delete"
    /\ \E ok \in BOOLEAN :
         LET threads == IF ok THEN Take(digests, MaxDeleteThreads) ELSE <<>>
         IN  \E done \in [1..Len(threads) -> BOOLEAN] :
                 /\ trace' = trace \o <<Step("delete_pass", None)>>
                                   \o TrashSteps(threads)
                 /\ digests' = Untrashed(digests, Len(threads), done, 1)
    /\ pc' = "send"
    /\ UNCHANGED <<got_details, inputs, excluded_job_ids, previous_jobs, emails, i, body,
                   job_listings, j, filtered_jobs, processed_message_ids,
                   unique_jobs, fetches>>

\* send_summary_email with a failed send not caught: the run stops there.
SendSummaryFatal ==
    /\ pc = "send"
    /\ \E ok \in BOOLEAN :
           /\ trace' = Append(trace, Step("send", BuildEmailBody(unique_jobs)))
           /\ digests' =
                  IF ok
                  THEN Append(digests, [id |-> <<"sent">>,
                                        body |-> BuildEmailBody(unique_jobs),
                                        recent |-> TRUE])
                  ELSE digests
           /\ pc' = IF ok THEN "mark" ELSE "raised"
    /\ UNCHANGED <<got_details, inputs, excluded_job_ids, previous_jobs,
                   emails, i, body, job_listings, j, filtered_jobs,
                   processed_message_ids, unique_jobs, fetches>>

\* send_summary_email(unique_jobs, recipient_email): nothing for an empty
\* list; the send can fail, which is caught.
SendSummary ==
    /\ pc = "send"
    /\ IF unique_jobs = <<>>
       THEN UNCHANGED <<trace, digests>>
       ELSE \E ok \in BOOLEAN :
               /\ trace' = Append(trace, Step("send", BuildEmailBody(unique_jobs)))
               /\ digests' =
                      IF ok
                      THEN Append(digests, [id |-> <<"sent">>,
                                            body |-> BuildEmailBody(unique_jobs),
                                            recent |-> TRUE])
                      ELSE digests
    /\ pc' = "mark"
    /\ UNCHANGED <<got_details, inputs, excluded_job_ids, previous_jobs, emails, i, body,
                   job_listings, j, filtered_jobs, processed_message_ids,
                   unique_jobs, fetches>>

UnreadSteps(ids) == [k \in 1..Len(ids) |-> Step("unread", ids[k])]

\* The mark-as-read loop with the test of dry_run left out.
MarkReadInPreview ==
    /\ pc = "mark"
    /\ trace' = trace \o UnreadSteps(processed_message_ids)
    /\ pc' = "done"
    /\ UNCHANGED <<got_details, inputs, digests, excluded_job_ids,
                   previous_jobs, emails, i, body, job_listings, j,
                   filtered_jobs, processed_message_ids, unique_jobs, fetches>>

\* The mark-as-read loop at the end of the run.
MarkRead ==
    /\ pc = "mark"
    /\ trace' = IF ~dry_run /\ processed_message_ids # <<>>
                THEN trace \o UnreadSteps(processed_message_ids)
                ELSE trace
    /\ pc' = "done"
    /\ UNCHANGED <<got_details, inputs, digests, excluded_job_ids, previous_jobs, emails,
                   i, body, job_listings, j, filtered_jobs,
                   processed_message_ids, unique_jobs, fetches>>

Next ==
    \/ LoadExclusions
    \/ ParsePrevious
    \/ GetUnread
    \/ NextEmail
    \/ ProcessListing
    \/ Merge
    \/ DeleteOldSummaries
    \/ SendSummary
    \/ MarkRead

Spec == Init /\ [][Next]_vars

\* ------------------------------------------- one run after another

\* How many runs follow one another.
MaxRuns == 2

\* The unread job alerts a run finds: none or one.
RunInboxes == {NumberEmails(es) : es \in SeqsUpTo(EmailChoices, 1)}

\* A first run without --dry-run.
RunsInit == Init /\ ~dry_run /\ inbox \in RunInboxes

\* The step now taken succeeds in all its mail-tool calls (run_gog_command
\* gives the threads, the message, the trash label; the send exits 0), and
\* the exclusion file is read whole.
Succeeds ==
    /\ pc = "load" => excluded_job_ids' = LoadExclusionList(exclusion_file)
    /\ pc = "previous" =>
           previous_jobs' =
               PreviousJobsOf(RecentThreads(digests),
                              [k \in 1..Len(RecentThreads(digests)) |-> TRUE], 1)
    /\ pc = "search" => emails' = Take(inbox, MaxEmailThreads)
    /\ (pc = "email" /\ i <= Len(emails) /\ emails[i].id # None) =>
           emails[i].id \in got_details'
    /\ pc = "delete" => digests' = Drop(digests, MaxDeleteThreads + 1)
    /\ (pc = "send" /\ unique_jobs # <<>>) => Len(digests') = Len(digests) + 1

\* The number of the run under way; the first step of the trace of a later
\* run tells it.
RunNumber == IF trace # <<>> /\ trace[1].op = "run" THEN trace[1].arg.n ELSE 1

\* The script is started again, after new job alerts arrived; more than a
\* day may have passed (aged), which takes the digests out of the reach of
\* newer_than:1d. The trace of the new run starts with what the run before
\* it sent.
NextRun ==
    /\ pc = "done"
    /\ RunNumber < MaxRuns
    /\ \E aged \in BOOLEAN :
           /\ digests' = [k \in 1..Len(digests) |->
                             [digests[k] EXCEPT !.recent = @ /\ ~aged]]
           /\ trace' = <<Step("run", [n |-> RunNumber + 1,
                                      jobs |-> unique_jobs,
                                      aged |-> aged])>>
    /\ inbox' \in RunInboxes
    /\ pc' = "load"
    /\ excluded_job_ids' = {}
    /\ previous_jobs' = <<>>
    /\ emails' = <<>>
    /\ i' = 1
    /\ body' = <<>>
    /\ job_listings' = <<>>
    /\ j' = 1
    /\ filtered_jobs' = <<>>
    /\ processed_message_ids' = <<>>
    /\ unique_jobs' = <<>>
    /\ got_details' = {}
    /\ fetches' = <<>>
    /\ UNCHANGED <<dry_run, exclusion_file>>

RunsNext ==
    \/ Next /\ Succeeds
    \/ NextRun

RunsSpec == RunsInit /\ [][RunsNext]_vars

\* ------------------------------------------------- the functions alone

\* The longest company name drawn, in words.
MaxNameLen == 3

\* Company names: up to MaxNameLen of these words, and the two names the
\* documentation gives.
NameWords == {"Google", "GOOGLE", "Metallica", "Uber", "Palo", "Alto", "Acme",
              "LLC", " "}
CompanyNames ==
    SeqsUpTo(NameWords, MaxNameLen)
        \cup { <<"Random", " ", "Unknown", " ", "Startup", " ", "Inc">> }

\* A call of one of the functions on its own: the trace holds the call, and
\* after the return its result.
\* The longest job list handed to the digest builder.
MaxJobs == 3

\* Job lists for the digest builder: two listings of one tier-1 company, one
\* of a tier-2 company, two of tier-3 companies.
BuilderJobs ==
    { Job(<<"Google">>, <<"Senior", " ", "Engineer">>, JobUrl(<<"1">>, <<>>),
          <<"$", "1", "K", "-", "$", "2", "K">>, <<"Remote">>),
      Job(<<"Google", " ", "LLC">>, <<"Engineer">>, JobUrl(<<"2">>, <<>>),
          NotSpecified, <<"Hybrid">>),
      Job(<<"Uber">>, <<"Engineer">>, JobUrl(<<"3">>, <<>>),
          NotSpecified, <<"Remote">>),
      Job(<<"CVS">>, <<"Staff", " ", "Engineer">>, JobUrl(<<"4">>, <<>>),
          NotSpecified, <<"Seattle", ",", " ", "WA">>),
      Job(<<"Acme">>, <<"Engineer">>, JobUrl(<<"5">>, <<>>),
          <<"$", "1", "K", "-", "$", "2", "K">>, <<"Hybrid">>) }
JobLists == SeqsUpTo(BuilderJobs, MaxJobs)

\* The most pieces put together into a body for the listing parser.
MaxPieces == 3

\* Pieces of job-alert text: a listing in the old format and one in the
\* combined format, each closed by "View job:" and its link; a segment of
\* nothing but a connection count; a listing whose "View job:" no link
\* follows; a listing closed by a bare "View"; text with no delimiter; a
\* listing whose company line is a place.
BodyPieces ==
    { <<"Engineer", "\n", "Acme", "\n", "Remote", "\n", "View", " ", "job:", " ">>
          \o JobUrl(<<"1">>, <<"?", "trk">>) \o <<"\n">>,
      <<"Staff", " ", "Engineer", "\n", "Google", " ", "middot", " ", "Remote",
        "\n", "View", " ", "job:", " ">> \o JobUrl(<<"2">>, <<>>) \o <<"\n">>,
      <<"3", " ", "connections", "\n", "View", " ", "job:", " ">>
          \o JobUrl(<<"3">>, <<>>) \o <<"\n">>,
      <<"Engineer", "\n", "Uber", "\n", "Hybrid", "\n", "View", " ", "job:",
        " ", "Unsubscribe", "\n">>,
      <<"Engineer", "\n", "CVS", "\n", "Remote", "\n", "View", " ">>
          \o JobUrl(<<"4">>, <<>>) \o <<"\n">>,
      <<"Hello", " ", "from", " ", "LinkedIn", "\n">>,
      <<"Engineer", "\n", "Seattle", "\n", "Remote", "\n", "View", " ", "job:",
        " ">> \o JobUrl(<<"5">>, <<>>) \o <<"\n">> }

RECURSIVE Concat(_)
Concat(pieces) ==
    IF pieces = <<>> THEN <<>> ELSE Head(pieces) \o Concat(Tail(pieces))

ParserBodies == {Concat(ps) : ps \in SeqsUpTo(BodyPieces, MaxPieces)}

\* The most snippets put together into a text for extract_compensation.
MaxSnippets == 2

\* Snippets of text: one or two for each pattern of extract_compensation,
\* a USD range in lowercase, a USD range whose amounts are commas alone, and
\* one that no pattern matches.
Snippets ==
    { <<"base", " ", "salary", " ", "range", " ", "is", " ",
        "1", "5", "0", ",", "0", "0", "0", " ", "USD", " ", "-", " ",
        "2", "0", "0", ",", "0", "0", "0", " ", "USD">>,
      <<"pay", " ", "range", " ", "is", " ", "9", "9", "9", " ", "USD", "-",
        "1", "5", "0", "0", " ", "USD">>,
      <<"pay", " ", "range", " ", "is", " ", "1", "5", "0", ",", "0", "0", "0",
        " ", "usd", " ", "-", " ", "2", "0", "0", ",", "0", "0", "0", " ", "usd">>,
      <<"salary", " ", "range", " ", "is", " ", ",", " ", "USD", " ", "-", " ",
        ",", " ", "USD">>,
      <<"$", "1", "9", "8", "K", "-", "$", "3", "4", "3", "K", " ", "/", " ",
        "y", "e", "a", "r">>,
      <<"$", "2", "0", "0", "K", "/", "y", "r", "+">>,
      <<"$", "1", "0", "0", "k", " ", "\n", "-", " ", "$", "2", "0", "0", "k">>,
      <<"$", "9", "0", "k", "+">>,
      <<"1", "0", "0", "k", "-", "2", "0", "0", "K">>,
      <<"compensation", ":", " ", "1", "0", "0", "-", "2", "0", "0">>,
      <<"base", " ", "salary", " ", "9", "0", "+">>,
      <<"nothing">> }

\* Snippets joined by a newline each.
RECURSIVE JoinLines(_)
JoinLines(ss) ==
    IF ss = <<>> THEN <<>>
    ELSE IF Len(ss) = 1 THEN ss[1]
    ELSE Head(ss) \o <<"\n">> \o JoinLines(Tail(ss))

CompensationTexts == {JoinLines(ss) : ss \in SeqsUpTo(Snippets, MaxSnippets)}

Calls ==
    {Step("get_company_tier", n) : n \in CompanyNames}
        \cup {Step("extract_compensation", t) : t \in CompensationTexts}
        \cup {Step("send_summary_email", jobs) : jobs \in JobLists}
        \cup {Step("parse_job_listings_from_body", b) : b \in ParserBodies}

CallInit ==
    /\ pc = "call"
    /\ trace \in {<<c>> : c \in Calls}
    /\ dry_run = FALSE
    /\ exclusion_file = [exists |-> FALSE, lines |-> <<>>]
    /\ digests = <<>>
    /\ inbox = <<>>
    /\ excluded_job_ids = {}
    /\ previous_jobs = <<>>
    /\ emails = <<>>
    /\ i = 1
    /\ body = <<>>
    /\ job_listings = <<>>
    /\ j = 1
    /\ filtered_jobs = <<>>
    /\ processed_message_ids = <<>>
    /\ unique_jobs = <<>>
    /\ got_details = {}
    /\ fetches = <<>>

\* The return of a call with a result.
Return(result) ==
    /\ trace' = Append(trace, Step("return", result))
    /\ pc' = "returned"
    /\ UNCHANGED <<got_details, inputs, digests, excluded_job_ids,
                   previous_jobs, emails, i, body, job_listings, j,
                   filtered_jobs, processed_message_ids, unique_jobs, fetches>>

TierReturns ==
    /\ pc = "call"
    /\ trace[1].op = "get_company_tier"
    /\ Return(get_company_tier(trace[1].arg))

\* send_summary_email up to the document it hands to the send command; it
\* returns at once, with no document, for an empty list.
BuildReturns ==
    /\ pc = "call"
    /\ trace[1].op = "send_summary_email"
    /\ Return(IF trace[1].arg = <<>> THEN None
              ELSE BuildEmailBody(trace[1].arg))

ParseReturns ==
    /\ pc = "call"
    /\ trace[1].op = "parse_job_listings_from_body"
    /\ Return(parse_job_listings_from_body(trace[1].arg))

\* An exception leaves the called function: no result.
Raise(exception) ==
    /\ trace' = Append(trace, Step("raise", exception))
    /\ pc' = "raised"
    /\ UNCHANGED <<got_details, inputs, digests, excluded_job_ids,
                   previous_jobs, emails, i, body, job_listings, j,
                   filtered_jobs, processed_message_ids, unique_jobs, fetches>>

\* extract_compensation returns the standardized match, or int() raises.
ExtractReturns ==
    /\ pc = "call"
    /\ trace[1].op = "extract_compensation"
    /\ IF extract_compensation(trace[1].arg) = ValueError
       THEN Raise(ValueError)
       ELSE Return(extract_compensation(trace[1].arg))

CallNext ==
    \/ ExtractReturns
    \/ TierReturns
    \/ BuildReturns
    \/ ParseReturns

CallSpec == CallInit /\ [][CallNext]_vars

\* ------------------------------------------------------------ properties

\* The run is past the merge: unique_jobs is what the loop left.
Merged == pc \in {"delete", "send", "mark", "done"}

\* The run came to its end (the early return included).
Ended == pc = "done"

\* The key the deduplication goes by: the job id, or the whole link when
\* the link holds none.
DedupKey(job) ==
    IF JobIdOfLink(job.link) # None THEN JobIdOfLink(job.link) ELSE job.link

\* Whether the link of a job holds an id of the exclusion list.
IsExcluded(job, excluded) ==
    JobIdOfLink(job.link) # None /\ JobIdOfLink(job.link) \in excluded

\* How many steps of the trace are calls of op.
CountOp(op) == Cardinality({k \in 1..Len(trace) : trace[k].op = op})

\* C1: no listing whose job id is in the loaded exclusion list is in the
\* sequence handed to the send step, whether it came from an earlier digest
\* or from a new email.
C1_ExcludedNeverSent ==
    \A k \in 1..Len(unique_jobs) :
        ~IsExcluded(unique_jobs[k], excluded_job_ids)

\* An earlier digest brought a listing with an excluded id, a new email
\* brought a kept one, and the send step has the merged sequence.
C1_Witness ==
    /\ pc = "send"
    /\ unique_jobs # <<>>
    /\ filtered_jobs # <<>>
    /\ \E k \in 1..Len(previous_jobs) :
           IsExcluded(previous_jobs[k], excluded_job_ids)

\* C2: no two entries of the deduplicated sequence share a dedup key.
C2_UniqueKeys ==
    \A a, b \in 1..Len(unique_jobs) :
        a # b => DedupKey(unique_jobs[a]) # DedupKey(unique_jobs[b])

\* The merge met a key twice, once from an earlier digest and once from a
\* new email, and left more than one entry.
C2_Witness ==
    /\ Merged
    /\ Len(unique_jobs) > 1
    /\ \E a \in 1..Len(previous_jobs), b \in 1..Len(filtered_jobs) :
           /\ DedupKey(previous_jobs[a]) = DedupKey(filtered_jobs[b])
           /\ ~IsExcluded(previous_jobs[a], excluded_job_ids)

C4_DeleteThenSend ==
    /\ (~dry_run /\ pc = "send") =>
           CountOp("delete_pass") = 1 /\ CountOp("send") = 0
    /\ (~dry_run /\ pc \in {"mark", "done"} /\ unique_jobs # <<>>) =>
           /\ CountOp("delete_pass") = 1
           /\ CountOp("send") = 1
           /\ \A a, b \in 1..Len(trace) :
                  (trace[a].op \in {"delete_pass", "trash"}
                       /\ trace[b].op = "send") => a < b

\* A run without --dry-run came to its end having trashed an earlier digest
\* and sent the new one.
C4_Witness ==
    /\ ~dry_run
    /\ Ended
    /\ CountOp("trash") >= 1
    /\ CountOp("send") = 1
    /\ filtered_jobs # <<>>

\* The jobs of all_jobs the deduplication keeps, by position: not excluded,
\* and no job before it that is not excluded has its key.
KeptAt(all, excluded) ==
    {k \in 1..Len(all) :
        /\ ~IsExcluded(all[k], excluded)
        /\ \A m \in 1..(k - 1) :
               IsExcluded(all[m], excluded)
                   \/ DedupKey(all[m]) # DedupKey(all[k])}

\* The elements of s at the positions of set at, in the order of s.
Pick(s, at) ==
    [n \in 1..Cardinality(at) |->
        s[CHOOSE k \in at : Cardinality({m \in at : m <= k}) = n]]

\* C5: the deduplicated sequence is the survivors recovered from earlier
\* digests, then the new survivors, each group in the order first seen; of
\* an earlier and a new listing with one job id the earlier one is kept.
C5_PreviousFirst ==
    Merged =>
        /\ unique_jobs =
               Pick(previous_jobs \o filtered_jobs,
                    KeptAt(previous_jobs \o filtered_jobs, excluded_job_ids))
        /\ \A k \in 1..Len(unique_jobs), a \in 1..Len(previous_jobs) :
               DedupKey(unique_jobs[k]) = DedupKey(previous_jobs[a])
                   => \E m \in 1..Len(previous_jobs) :
                          unique_jobs[k] = previous_jobs[m]

\* The merge had an earlier and a new listing with one job id and other
\* fields, kept the earlier one, and kept a new listing after it.
C5_Witness ==
    /\ Merged
    /\ \E a \in 1..Len(previous_jobs), b \in 1..Len(filtered_jobs) :
           /\ DedupKey(previous_jobs[a]) = DedupKey(filtered_jobs[b])
           /\ previous_jobs[a] # filtered_jobs[b]
           /\ \E k \in 1..Len(unique_jobs) : unique_jobs[k] = previous_jobs[a]
    /\ \E b \in 1..Len(filtered_jobs) :
           unique_jobs[Len(unique_jobs)] = filtered_jobs[b]
               /\ \A a \in 1..Len(previous_jobs) :
                      previous_jobs[a] # filtered_jobs[b]

\* C6: the deduplication is idempotent: over all_jobs followed by itself it
\* gives what it gives over all_jobs, and over its own result it gives that
\* result.
C6_Idempotent ==
    Merged =>
        /\ Dedup(MergeInput(previous_jobs, filtered_jobs)
                     \o MergeInput(previous_jobs, filtered_jobs),
                 excluded_job_ids) = unique_jobs
        /\ Dedup(unique_jobs, excluded_job_ids) = unique_jobs

\* The merge dropped something and kept a job whose link holds no id.
C6_Witness ==
    /\ Merged
    /\ unique_jobs # <<>>
    /\ Len(unique_jobs) < Len(previous_jobs) + Len(filtered_jobs)
    /\ \E k \in 1..Len(unique_jobs) : JobIdOfLink(unique_jobs[k].link) = None
    /\ filtered_jobs # <<>>

\* How many elements of the sequence s are x.
Occurrences(s, x) == Cardinality({k \in 1..Len(s) : s[k] = x})

\* The sequences s and t hold the same elements as often, in any order.
SameListings(s, t) ==
    /\ Len(s) = Len(t)
    /\ \A k \in 1..Len(s) : Occurrences(s, s[k]) = Occurrences(t, s[k])

\* C7: the recovery parser, given the digest built from a sequence of
\* listings, gives back the listings of that sequence (here: the same
\* listings as often, whatever their order).
C7_RoundTrip ==
    \A k \in 1..Len(trace) :
        trace[k].op = "send"
            => SameListings(ParseDigestBody(trace[k].arg), unique_jobs)

\* The ids of the emails a remove-UNREAD request was made for.
Marked ==
    {trace[k].arg : k \in {n \in 1..Len(trace) : trace[n].op = "unread"}}

\* The ids of the emails found that carry an id and whose details arrived.
Fetched ==
    {emails[k].id : k \in {n \in 1..Len(emails) :
        emails[n].id # None /\ emails[n].id \in got_details}}

\* Those of them whose body gave at least one listing.
GaveListing ==
    {emails[k].id : k \in {n \in 1..Len(emails) :
        /\ emails[n].id # None
        /\ emails[n].id \in got_details
        /\ parse_job_listings_from_body(emails[n].body) # <<>>}}

\* C8 as the specification states it: without --dry-run, at the end of the
\* run every email with an id whose details were fetched and parsed has a
\* remove-UNREAD request, those that gave no listing included; under
\* --dry-run none has.
C8_AllProcessedMarked ==
    Ended => IF dry_run THEN Marked = {} ELSE Fetched \subseteq Marked

\* C8, amended: without --dry-run, at the end of the run the emails with a
\* remove-UNREAD request are those with an id whose body gave at least one
\* listing, also when every listing was filtered out; an email that gave no
\* listing has none; under --dry-run, and before the end, none has.
C8_ParsedMarked ==
    /\ Ended => Marked = IF dry_run THEN {} ELSE GaveListing
    /\ Ended => CountOp("unread") = Cardinality(Marked)
    /\ ~Ended => Marked = {}

\* A run without --dry-run came to its end with an email marked all of
\* whose listings were filtered out, and one left unread that gave none.
C8_Witness ==
    /\ ~dry_run
    /\ Ended
    /\ filtered_jobs = <<>>
    /\ Marked # {}
    /\ Fetched \ Marked # {}

\* C9: when the merged and deduplicated sequence is empty, a run in either
\* mode builds and sends no digest and makes no delete pass.
C9_EmptyNoSend ==
    (pc \in {"mark", "done"} /\ unique_jobs = <<>>) =>
        /\ CountOp("send") = 0
        /\ CountOp("delete_pass") = 0
        /\ CountOp("trash") = 0

\* A run without --dry-run came to its end with an earlier digest in the
\* mailbox and emails processed, and its merged sequence was empty.
C9_Witness ==
    /\ ~dry_run
    /\ Ended
    /\ unique_jobs = <<>>
    /\ digests # <<>>
    /\ previous_jobs # <<>>
    /\ processed_message_ids # <<>>

\* The listing the inner loop is at, the call of the job page made in the
\* step (or none), and the compensation the step recorded.
ListingKept == Len(filtered_jobs') = Len(filtered_jobs) + 1
PageFetched == Len(fetches') = Len(fetches) + 1
PageSalary == IF PageFetched THEN fetches'[Len(fetches')].salary ELSE None
Recorded == filtered_jobs'[Len(filtered_jobs')].compensation

\* What C10 asks of a step that keeps a listing whose inline salary is
\* inline, found being what the search of the email body gives.
Resolved(inline, found, link) ==
    /\ inline # None => Recorded = inline /\ ~PageFetched
    /\ (inline = None /\ found # NotSpecified) =>
           Recorded = found /\ ~PageFetched
    /\ (inline = None /\ found = NotSpecified) =>
           /\ PageFetched
           /\ fetches'[Len(fetches')].url = link
           /\ Recorded = IF PageSalary # None THEN PageSalary ELSE NotSpecified
    /\ Recorded = NotSpecified <=>
           /\ inline = None
           /\ found = NotSpecified
           /\ PageFetched /\ PageSalary = None
    /\ ~PageFetched => fetches' = fetches

\* C10: the compensation of a kept listing is the inline salary when the
\* listing has one; else what the search of the email body gives when that
\* finds one; else what the job page gives, which is fetched only then;
\* and it is "Not specified" exactly when all three give nothing.
C10_ResolutionOrder ==
    [][ListingKept =>
           Resolved(job_listings[j].salary, extract_compensation(body),
                    job_listings[j].link)]_vars

\* A listing was kept with a salary found without the job page, and after
\* it one for which the job page was called, with the salary of the page
\* or with none.
C10_Witness ==
    /\ Len(fetches) = 1
    /\ Len(filtered_jobs) = 2
    /\ filtered_jobs[1].compensation # NotSpecified
    /\ filtered_jobs[2].compensation \in {NotSpecified, fetches[1].salary}
    /\ fetches[1].url = filtered_jobs[2].link

\* Where the run stands in its fixed sequence: the stage, and within the
\* loop over the emails the email, whether its listings are being handled,
\* and the listing.
Stage ==
    CASE pc = "load" -> 0
      [] pc = "previous" -> 1
      [] pc = "search" -> 2
      [] pc \in {"email", "listing"} -> 3
      [] pc = "merge" -> 4
      [] pc = "delete" -> 5
      [] pc = "send" -> 6
      [] pc = "mark" -> 7
      [] OTHER -> 8
Place == <<Stage, i, IF pc = "listing" THEN 1 ELSE 0, j>>

\* The place p comes before the place q.
Before(p, q) ==
    \E k \in 1..4 : p[k] < q[k] /\ \A m \in 1..(k - 1) : p[m] = q[m]

\* C11: whatever external operations fail (the load of the exclusion file,
\* the searches and gets of the mail tool, its trash and send requests, the
\* fetches of job pages), the run raises nothing, every step takes it
\* forward in its sequence, and until its end it has a step to take (the
\* turns of the loop over the listings of an email, a plain distinction of
\* cases, are left out of the last part).
C11_FailuresNotFatal ==
    /\ [](pc # "raised")
    /\ [](pc \notin {"done", "listing"} => ENABLED Next)
    /\ [][Before(Place, Place')]_vars

\* A run came to its end after the load of the exclusion file, the search
\* for earlier digests, the details of an email, the fetch of a job page, a
\* trash request and the send had all failed.
C11_Witness ==
    /\ Ended
    /\ ~dry_run
    /\ LoadExclusionList(exclusion_file) # {} /\ excluded_job_ids = {}
    /\ digests # <<>> /\ previous_jobs = <<>>
    /\ \E k \in 1..Len(emails) :
           emails[k].id # None /\ emails[k].id \notin got_details
    /\ \E k \in 1..Len(fetches) : fetches[k].salary = None
    /\ \E k \in 1..Len(trace), d \in 1..Len(digests) :
           trace[k] = Step("trash", digests[d].id)
    /\ CountOp("send") = 1
    /\ \A d \in 1..Len(digests) : digests[d].id # <<"sent">>

\* A call of the function named op has returned; Argument and Result are
\* what it was given and what it gave.
Returned(op) == pc = "returned" /\ trace[1].op = op
Argument == trace[1].arg
Result == trace[2].arg

\* The words whose lowercase holds a keyword of tier 1 ("metallica" holds
\* "meta"), and of tier 2.
Tier1Words == {"Google", "GOOGLE", "Metallica"}
Tier2Words == {"Uber"}

\* A name holds a tier-2 keyword: a tier-2 word, or "Palo Alto".
HoldsTier2(name) ==
    \/ Range(name) \cap Tier2Words # {}
    \/ \E p \in 1..(Len(name) - 2) :
           name[p] = "Palo" /\ name[p + 1] = " " /\ name[p + 2] = "Alto"

\* C12: get_company_tier gives 1 for a name that holds a tier-1 keyword in
\* any case, also when it holds a tier-2 keyword; else 2 for a name that
\* holds a tier-2 keyword; else 3; "Google LLC" is 1 and "Random Unknown
\* Startup Inc" is 3.
C12_TierPrecedence ==
    Returned("get_company_tier") =>
        /\ Result \in {1, 2, 3}
        /\ Result = 1 <=> Range(Argument) \cap Tier1Words # {}
        /\ Result = 2 <=> (Range(Argument) \cap Tier1Words = {}
                               /\ HoldsTier2(Argument))
        /\ Argument = <<"Google", " ", "LLC">> => Result = 1
        /\ Argument = <<"Random", " ", "Unknown", " ", "Startup", " ", "Inc">>
               => Result = 3

\* The call returned for a name that holds a keyword of each tier, the
\* tier-2 one first.
C12_Witness ==
    /\ Returned("get_company_tier")
    /\ Argument = <<"Uber", " ", "Google">>
    /\ Result = 1

\* Reading a built digest: where its tier headers and its job entries stand.
HeadersIn(doc) == {p \in 1..Len(doc) : doc[p] = TierHeaderOpen}
EntriesIn(doc) == {p \in 1..Len(doc) : doc[p] = CompanyOpen}

\* The text from position p up to the first token of set stops after it.
TextUpTo(doc, p, stops) ==
    LET e == SetMin({q \in p..(Len(doc) + 1) :
                        q = Len(doc) + 1 \/ doc[q] \in stops})
    IN  SubSeq(doc, p, e - 1)

\* The text that follows the first token open after position p.
FieldAfter(doc, p, open, skip, stops) ==
    LET q == SetMin({r \in p..Len(doc) : doc[r] = open})
    IN  TextUpTo(doc, q + 1 + skip, stops)

\* The title of the section an entry stands in: that of the last header
\* before it.
SectionTitle(doc, p) ==
    LET hs == {h \in HeadersIn(doc) : h < p}
    IN  IF hs = {} THEN "" ELSE doc[SetMax(hs) + 1]

\* The number shown before an entry's company, and the listing it shows.
NumberShown(doc, p) == TextUpTo(doc, p + 1, {"."})
ListingShown(doc, p) ==
    LET n == Len(NumberShown(doc, p))
    IN  Job(TextUpTo(doc, p + n + 3, {DivClose}),
            FieldAfter(doc, p, TitleOpen, 0, {DivClose}),
            FieldAfter(doc, p, AOpen, 0, {DQ}),
            FieldAfter(doc, p, PayLabel, 1, {DivClose}),
            FieldAfter(doc, p, LocationLabel, 1, {DivClose}))

\* The place of listing m among the listings of its tier in the input.
RankInTier(jobs, m) ==
    Cardinality({n \in 1..m : get_company_tier(jobs[n].company)
                                  = get_company_tier(jobs[m].company)})

\* The entries that show listing m of the input: in the section of its tier,
\* under its number.
EntriesFor(doc, jobs, m) ==
    {p \in EntriesIn(doc) :
        /\ SectionTitle(doc, p) = TierTitle(get_company_tier(jobs[m].company))
        /\ NumberShown(doc, p) = NatToStr(RankInTier(jobs, m))}

\* C13: the digest built from a non-empty job list shows each listing once,
\* in the section of its company's tier and numbered by its place among the
\* listings of that tier in the input, so that a section keeps the input
\* order and is numbered 1..n; it has one section per tier that has a
\* listing and none for the others; the count at its head is the number of
\* listings.
C13_PartitionByTier ==
    (Returned("send_summary_email") /\ Argument # <<>>) =>
        LET jobs == Argument
            doc == Result
        IN  /\ Cardinality(EntriesIn(doc)) = Len(jobs)
            /\ \A m \in 1..Len(jobs) :
                   /\ Cardinality(EntriesFor(doc, jobs, m)) = 1
                   /\ \A p \in EntriesFor(doc, jobs, m) :
                          ListingShown(doc, p) = jobs[m]
            /\ \A m, n \in 1..Len(jobs) :
                   \A p \in EntriesFor(doc, jobs, m),
                      q \in EntriesFor(doc, jobs, n) :
                       (m < n /\ get_company_tier(jobs[m].company)
                                    = get_company_tier(jobs[n].company))
                           => p < q
            /\ \A k \in 1..3 :
                   Cardinality({h \in HeadersIn(doc) : doc[h + 1] = TierTitle(k)})
                       = IF \E m \in 1..Len(jobs) :
                                get_company_tier(jobs[m].company) = k
                         THEN 1 ELSE 0
            /\ Cardinality(HeadersIn(doc)) <= 3
            /\ FieldAfter(doc, 1, HtmlHead, 0, {" "}) = NatToStr(Len(jobs))

\* A digest was built from three listings, two of tier 1 around one of
\* tier 2, and has no tier-3 section.
C13_Witness ==
    /\ Returned("send_summary_email")
    /\ Len(Argument) = 3
    /\ get_company_tier(Argument[1].company) = 1
    /\ get_company_tier(Argument[2].company) = 2
    /\ get_company_tier(Argument[3].company) = 1
    /\ Argument[1] # Argument[3]
    /\ Cardinality(HeadersIn(Result)) = 2

\* Where a delimiter stands in a body, and the delimiter the parser splits a
\* body on: "View job:" when the body holds one, else "View".
DelimitersAt(text, lit) ==
    {p \in 1..(Len(text) - Len(lit) + 1) :
        SubSeq(text, p, p + Len(lit) - 1) = lit}
DelimiterOf(text) ==
    IF DelimitersAt(text, ViewJob) # {} THEN ViewJob ELSE <<"View">>

\* The segment that ends at the delimiter standing at d, and the one that
\* starts after it.
SegmentBefore(text, d) ==
    LET lit == DelimiterOf(text)
        prev == {p \in DelimitersAt(text, lit) : p < d}
    IN  SubSeq(text, IF prev = {} THEN 1 ELSE SetMax(prev) + Len(lit), d - 1)
SegmentAfter(text, d) ==
    LET lit == DelimiterOf(text)
        next == {p \in DelimitersAt(text, lit) : p > d}
    IN  SubSeq(text, d + Len(lit),
               IF next = {} THEN Len(text) ELSE SetMin(next) - 1)

\* C14: a body without "View" gives no listing; for any body, the listings
\* returned come from distinct delimiter occurrences taken in order, each
\* from one whose segment has a usable line and whose following segment
\* holds a job link, which is the listing's link; so there is at most one
\* listing per occurrence.
C14_OnePerDelimiter ==
    Returned("parse_job_listings_from_body") =>
        LET text == Argument
            at == DelimitersAt(text, DelimiterOf(text))
        IN  /\ DelimitersAt(text, <<"View">>) = {} => Result = <<>>
            /\ Len(Result) <= Cardinality(at)
            /\ \E f \in [1..Len(Result) -> at] :
                   /\ \A k \in 1..(Len(Result) - 1) : f[k] < f[k + 1]
                   /\ \A k \in 1..Len(Result) :
                          /\ UsableLines(SegmentBefore(text, f[k])) # <<>>
                          /\ JobUrlIn(SegmentAfter(text, f[k])) # None
                          /\ Result[k].link = JobUrlIn(SegmentAfter(text, f[k]))

\* The parser returned two listings for a body with three occurrences of
\* "View job:", one of them with no link after it.
C14_Witness ==
    /\ Returned("parse_job_listings_from_body")
    /\ Cardinality(DelimitersAt(Argument, ViewJob)) = 3
    /\ \E d \in DelimitersAt(Argument, ViewJob) :
           JobUrlIn(SegmentAfter(Argument, d)) = None
    /\ Len(Result) = 2

\* A call of the function named op has ended, by a return or an exception.
Left(op) == pc \in {"returned", "raised"} /\ trace[1].op = op

\* The patterns of extract_compensation that match somewhere in a text.
Matching(text) ==
    {k \in 1..Len(CompPatterns) : Search(CompPatterns[k], Fold(text))[1] # 0}

\* What the first of patterns k matches in the text.
MatchedBy(text, k) ==
    LET m == Search(CompPatterns[k], Fold(text))
    IN  SubSeq(text, m[1], m[2] - 1)

\* C15: extract_compensation returns "Not specified" for a text that no
\* pattern matches, and else the cleaned-up match of the first pattern in
\* the order of the list that matches; a match of the USD-labelled pattern
\* is returned as "$<low>K-$<high>K" with the two amounts divided by 1000,
\* so that "base salary range is 150,000 USD - 200,000 USD" gives
\* "$150K-$200K".
C15_FirstMatchNormalized ==
    Left("extract_compensation") =>
        LET text == Argument
            k == SetMin(Matching(text))
            numbers == FindNumbers(MatchedBy(text, k))
        IN  /\ pc = "returned"
            /\ Matching(text) = {} => Result = NotSpecified
            /\ (Matching(text) # {} /\ k = 1) =>
                   Result = KRange(ParseInt(numbers[1]), ParseInt(numbers[2]))
            /\ (Matching(text) # {} /\ k # 1) =>
                   Result = YrToYear(CollapseSpaces(MatchedBy(text, k)))
            /\ text = <<"base", " ", "salary", " ", "range", " ", "is", " ",
                        "1", "5", "0", ",", "0", "0", "0", " ", "USD", " ", "-",
                        " ", "2", "0", "0", ",", "0", "0", "0", " ", "USD">>
                   => Result = <<"$", "1", "5", "0", "K", "-", "$", "2", "0",
                                 "0", "K">>

\* The words of the inputs whose lowercase holds a known-public keyword, and
\* those whose lowercase holds a public indicator.
PublicWords == {"Google", "Uber", "CVS"}
IndicatorWords == {"Equity"}

\* The digits that stand in a row from position p of a text.
DigitsFrom(text, p) ==
    SubSeq(text, p, SetMin({q \in p..(Len(text) + 1) :
                               q = Len(text) + 1 \/ text[q] \notin Digits}) - 1)

\* A listing passes the classifier and the exclusion check.
Passes(job, email_body, excluded) ==
    /\ \/ Range(job.company) \cap PublicWords # {}
       \/ Range(email_body) \cap IndicatorWords # {}
    /\ \A p \in 1..(Len(job.link) - 1) :
           (job.link[p] = JobsView /\ job.link[p + 1] \in Digits)
               => DigitsFrom(job.link, p + 1) \notin excluded

\* A turn of the loop over the listings of an email is about to be taken.
AtListing == pc = "listing" /\ j <= Len(job_listings)

\* C16: a listing is added to filtered_jobs only by the turn of the loop
\* that handles it, and only when its company holds a known-public keyword
\* or the body of its email a public indicator, and its job id is not in the
\* loaded exclusion list; the turn that handles any other listing leaves
\* filtered_jobs alone and fetches no job page.
C16_DroppedBeforeResolution ==
    [][ /\ ~AtListing => filtered_jobs' = filtered_jobs /\ fetches' = fetches
        /\ AtListing =>
               LET job == job_listings[j]
               IN  IF Passes(job, body, excluded_job_ids)
                   THEN /\ ListingKept
                        /\ filtered_jobs'[Len(filtered_jobs')].link = job.link
                        /\ filtered_jobs'[Len(filtered_jobs')].company
                               = job.company
                   ELSE /\ filtered_jobs' = filtered_jobs
                        /\ fetches' = fetches
                        /\ j' = j + 1 ]_vars

\* The listings of an email have been handled: the first was dropped by the
\* classifier, the second kept after a fetch of its job page, and no other
\* page was fetched.
C16_Witness ==
    /\ pc = "listing"
    /\ Len(job_listings) = 2
    /\ j = 3
    /\ ~Passes(job_listings[1], body, {})
    /\ Passes(job_listings[2], body, excluded_job_ids)
    /\ Len(filtered_jobs) = 1
    /\ filtered_jobs[1].link = job_listings[2].link
    /\ Len(fetches) = 1
    /\ fetches[1].url = job_listings[2].link

\* An earlier digest was moved to the trash in this run: a trash request for
\* a thread that is no longer in the mailbox.
TrashedOne ==
    \E k \in 1..Len(trace) :
        /\ trace[k].op = "trash"
        /\ \A d \in 1..Len(digests) : digests[d].id # trace[k].arg

\* The digest of this run is in the mailbox.
Delivered ==
    \E d \in 1..Len(digests) :
        /\ digests[d].id = <<"sent">>
        /\ digests[d].body = BuildEmailBody(unique_jobs)

\* C17: a run without --dry-run that moved an earlier digest to the trash
\* ends with its own digest in the mailbox, and that digest holds every
\* listing recovered from the earlier ones that is not excluded.
C17_NeverLostWithoutReplacement ==
    (Ended /\ ~dry_run /\ TrashedOne) =>
        /\ Delivered
        /\ \A k \in 1..Len(previous_jobs) :
               ~IsExcluded(previous_jobs[k], excluded_job_ids) =>
                   \E m \in 1..Len(unique_jobs) :
                       DedupKey(unique_jobs[m]) = DedupKey(previous_jobs[k])

\* C18: when a run without --dry-run whose calls all succeeded ends with a
\* non-empty result, as did the run before it, the mailbox holds one digest,
\* the one just sent; and the digest holds every listing of the digest of
\* the run before that is not excluded, unless more than a day has passed.
C18_OneDigestCarriedOver ==
    (/\ Ended
     /\ unique_jobs # <<>>
     /\ RunNumber > 1 => trace[1].arg.jobs # <<>>) =>
        /\ Len(digests) = 1
        /\ digests[1].id = <<"sent">>
        /\ digests[1].body = BuildEmailBody(unique_jobs)
        /\ (RunNumber > 1 /\ ~trace[1].arg.aged) =>
               \A k \in 1..Len(trace[1].arg.jobs) :
                   ~IsExcluded(trace[1].arg.jobs[k], excluded_job_ids) =>
                       \E m \in 1..Len(unique_jobs) :
                           unique_jobs[m].link = trace[1].arg.jobs[k].link

====
